---- MODULE Spec2Model ----
(***************************************************************************)
(* A model of the rgf units library: the dimension algebra of              *)
(* Dimension.hpp (type-level exponent vectors), and the value types        *)
(* quantity and linear_unit built on it.                                   *)
(*                                                                         *)
(* The library has no process of its own: a program instantiates one of    *)
(* its templates or calls one of its functions.  A state of the model is   *)
(* one such use: call is the operation and its arguments, pc tells whether *)
(* it was evaluated ("start", "done"), and res is what the compiler or the *)
(* function produced for it.  An instantiation the compiler refuses has    *)
(* the result NoType.                                                      *)
(***************************************************************************)
EXTENDS Integers, Sequences, FiniteSets, TLC

VARIABLES call, pc, res

vars == <<call, pc, res>>

(***************************************************************************)
(* Bounds of the model.                                                    *)
(***************************************************************************)
\* Exponents of the dimensions a use is given lie in -MaxExp .. MaxExp.
MaxExp == 2

\* Raw values and conversion factors a use is given are n or n/2 with n in
\* -MaxNum .. MaxNum.
MaxNum == 2

\* The numerator and the denominator of a rational power lie in -MaxPow .. MaxPow.
MaxPow == 3

\* The number of statements of a program that is run statement by statement.
MaxSteps == 2

(***************************************************************************)
(* C++ integer arithmetic on int: / truncates toward zero and % takes the  *)
(* sign of the dividend.  (Within the bounds no product leaves int.)       *)
(***************************************************************************)
Abs(x) == IF x < 0 THEN -x ELSE x

Sign(x) == IF x < 0 THEN -1 ELSE IF x > 0 THEN 1 ELSE 0

\* a / b of C++ for b # 0.
IntDiv(a, b) == Sign(a) * Sign(b) * (Abs(a) \div Abs(b))

\* a % b of C++ for b # 0.
IntRem(a, b) == a - b * IntDiv(a, b)

\* The conversion of a bool to int (a bool used as an int template argument).
BoolToInt(b) == IF b THEN 1 ELSE 0

(***************************************************************************)
(* Dimension.hpp.  A dimension dimension_t<BASE_TYPES<EXPONENTS>...> is    *)
(* the sequence of its bases, each the base template and its exponent.     *)
(* A member alias "type" that does not exist (no specialization matches,   *)
(* a requires-clause or a static_assert fails) is NoType.                  *)
(***************************************************************************)
\* The base templates of CommonDimensions.hpp.
BaseTemplates ==
    {"length", "time", "mass", "angle", "data", "charge", "temperature"}

\* rgf::standard_bases.
standard_bases ==
    <<"length", "time", "mass", "angle", "data", "charge", "temperature">>

NoType == [ok |-> FALSE, type |-> <<>>]

Type(d) == [ok |-> TRUE, type |-> d]

\* dimension_t<BASE_TYPES<EXPONENTS>...> from the two packs.
dimension_t(BASE_TYPES, EXPONENTS) ==
    [i \in 1..Len(BASE_TYPES) |-> [base |-> BASE_TYPES[i], exp |-> EXPONENTS[i]]]

\* The pack BASE_TYPES a dimension is deduced to.
BaseTypesOf(DIM) == [i \in 1..Len(DIM) |-> DIM[i].base]

\* The pack EXPONENTS a dimension is deduced to.
ExponentsOf(DIM) == [i \in 1..Len(DIM) |-> DIM[i].exp]

\* is_valid_power testing EXPONENTS % DEN, without the numerator.
is_valid_power_NoNum(EXPONENTS, NUM, DEN) ==
    /\ DEN # 0
    /\ \A i \in 1..Len(EXPONENTS) : IntRem(EXPONENTS[i], DEN) = 0

is_valid_power(EXPONENTS, NUM, DEN) ==
    /\ DEN # 0
    /\ \A i \in 1..Len(EXPONENTS) : IntRem(EXPONENTS[i] * NUM, DEN) = 0

\* dimension_product matching on the number of bases only.
dimension_product_AnyBases(LEFT_DIM, RIGHT_DIM) ==
    IF Len(LEFT_DIM) = Len(RIGHT_DIM)
    THEN Type([i \in 1..Len(LEFT_DIM) |->
                 [base |-> LEFT_DIM[i].base,
                  exp  |-> LEFT_DIM[i].exp + RIGHT_DIM[i].exp]])
    ELSE NoType

\* dimension_product with LEFT_EXPONENTS - RIGHT_EXPONENTS.
dimension_product_Minus(LEFT_DIM, RIGHT_DIM) ==
    IF BaseTypesOf(LEFT_DIM) = BaseTypesOf(RIGHT_DIM)
    THEN Type([i \in 1..Len(LEFT_DIM) |->
                 [base |-> LEFT_DIM[i].base,
                  exp  |-> LEFT_DIM[i].exp - RIGHT_DIM[i].exp]])
    ELSE NoType

\* The partial specialization matches when one pack BASE_TYPES is deduced
\* from both arguments.
dimension_product(LEFT_DIM, RIGHT_DIM) ==
    IF BaseTypesOf(LEFT_DIM) = BaseTypesOf(RIGHT_DIM)
    THEN Type([i \in 1..Len(LEFT_DIM) |->
                 [base |-> LEFT_DIM[i].base,
                  exp  |-> LEFT_DIM[i].exp + RIGHT_DIM[i].exp]])
    ELSE NoType

\* dimension_exponent with the numerator and the denominator exchanged in
\* the exponent it computes.
dimension_exponent_Swapped(DIM, POW_NUM, POW_DEN) ==
    IF is_valid_power(ExponentsOf(DIM), POW_NUM, POW_DEN)
    THEN Type([i \in 1..Len(DIM) |->
                 [base |-> DIM[i].base,
                  exp  |-> IF POW_NUM = 0 THEN 0
                           ELSE IntDiv(DIM[i].exp * POW_DEN, POW_NUM)]])
    ELSE NoType

dimension_exponent(DIM, POW_NUM, POW_DEN) ==
    IF is_valid_power(ExponentsOf(DIM), POW_NUM, POW_DEN)
    THEN Type([i \in 1..Len(DIM) |->
                 [base |-> DIM[i].base,
                  exp  |-> IntDiv(DIM[i].exp * POW_NUM, POW_DEN)]])
    ELSE NoType

scalar_dimension_type(BASE_TYPES) ==
    Type([i \in 1..Len(BASE_TYPES) |-> [base |-> BASE_TYPES[i], exp |-> 0]])

\* unit_dimension_type without its static_assert.
unit_dimension_type_NoAssert(BASE_TYPES, BASE_TYPE) ==
    Type([i \in 1..Len(BASE_TYPES) |->
            [base |-> BASE_TYPES[i],
             exp  |-> BoolToInt(BASE_TYPES[i] = BASE_TYPE)]])

unit_dimension_type(BASE_TYPES, BASE_TYPE) ==
    IF \E i \in 1..Len(BASE_TYPES) : BASE_TYPES[i] = BASE_TYPE
    THEN Type([i \in 1..Len(BASE_TYPES) |->
                 [base |-> BASE_TYPES[i],
                  exp  |-> BoolToInt(BASE_TYPES[i] = BASE_TYPE)]])
    ELSE NoType

\* dimension_inverse_t raising to the power 1.
dimension_inverse_t_PlusOne(DIM) == dimension_exponent(DIM, 1, 1)

dimension_inverse_t(DIM) == dimension_exponent(DIM, -1, 1)

dimension_product_t(LEFT_DIM, RIGHT_DIM) == dimension_product(LEFT_DIM, RIGHT_DIM)

\* An alias whose argument does not exist does not exist either.
dimension_quotient_t(LEFT_DIM, RIGHT_DIM) ==
    LET inv == dimension_inverse_t(RIGHT_DIM)
    IN  IF inv.ok THEN dimension_product_t(LEFT_DIM, inv.type) ELSE NoType

dimension_exponent_t(DIM, POW_NUM, POW_DEN) ==
    dimension_exponent(DIM, POW_NUM, POW_DEN)

\* std::same_as<DIM, dimension_exponent_t<DIM, 0>>.
empty_dimension(DIM) ==
    LET zero == dimension_exponent_t(DIM, 0, 1)
    IN  zero.ok /\ zero.type = DIM

scalar_dimension_type_t(BASE_TYPES) == scalar_dimension_type(BASE_TYPES)

unit_dimension_type_t(BASE_TYPES, BASE_TYPE) ==
    unit_dimension_type(BASE_TYPES, BASE_TYPE)

(***************************************************************************)
(* The arithmetic of value_type, an arithmetic type.  The model has two:   *)
(* "int", with C++ integer arithmetic, and "double".  A double is modelled *)
(* as an exact rational n/d in lowest terms (class "fin") or one of the    *)
(* IEEE values NaN, +infinity and -infinity; rounding, overflow and the    *)
(* sign of zero are not modelled.  An int is a "fin" with d = 1.  Integer  *)
(* division by zero is undefined behaviour: it yields whatever the build   *)
(* does there, the value ub of the run, which may be a trap (class         *)
(* "trap": the program stops and no value is produced).                    *)
(***************************************************************************)
\* The value types of the model; double is the library's default.
ValueTypes == {"double", "int"}

RECURSIVE Gcd(_, _)
Gcd(a, b) == IF b = 0 THEN a ELSE Gcd(b, a % b)

\* The value n/d, d # 0, in lowest terms with a positive denominator.
Fin(n, d) ==
    LET g == Gcd(Abs(n), Abs(d))
    IN  [cls |-> "fin", n |-> Sign(d) * (n \div g), d |-> Abs(d) \div g]

NaN == [cls |-> "nan", n |-> 0, d |-> 1]

PInf == [cls |-> "inf", n |-> 1, d |-> 1]

NInf == [cls |-> "inf", n |-> -1, d |-> 1]

Trap == [cls |-> "trap", n |-> 0, d |-> 1]

\* The infinity of the sign sgn # 0.
Inf(sgn) == IF sgn < 0 THEN NInf ELSE PInf

\* a * b in value_type vt.
value_mul(vt, a, b) ==
    IF a.cls = "trap" \/ b.cls = "trap" THEN Trap
    ELSE IF vt = "int" THEN Fin(a.n * b.n, 1)
    ELSE IF a.cls = "nan" \/ b.cls = "nan" THEN NaN
    ELSE IF a.cls = "inf" \/ b.cls = "inf"
         THEN IF a.n = 0 \/ b.n = 0 THEN NaN ELSE Inf(Sign(a.n) * Sign(b.n))
    ELSE Fin(a.n * b.n, a.d * b.d)

\* a / b in value_type vt; ub is what an integer division by zero yields.
value_div(vt, a, b, ub) ==
    IF a.cls = "trap" \/ b.cls = "trap" THEN Trap
    ELSE IF vt = "int" THEN IF b.n = 0 THEN ub ELSE Fin(IntDiv(a.n, b.n), 1)
    ELSE IF a.cls = "nan" \/ b.cls = "nan" THEN NaN
    ELSE IF a.cls = "inf"
         THEN IF b.cls = "inf" THEN NaN
              ELSE Inf(Sign(a.n) * (IF b.n < 0 THEN -1 ELSE 1))
    ELSE IF b.cls = "inf" THEN Fin(0, 1)
    ELSE IF b.n = 0 THEN IF a.n = 0 THEN NaN ELSE Inf(Sign(a.n))
    ELSE Fin(a.n * b.d, a.d * b.n)

\* a + b in value_type vt.
value_add(vt, a, b) ==
    IF a.cls = "trap" \/ b.cls = "trap" THEN Trap
    ELSE IF vt = "int" THEN Fin(a.n + b.n, 1)
    ELSE IF a.cls = "nan" \/ b.cls = "nan" THEN NaN
    ELSE IF a.cls = "inf"
         THEN IF b.cls = "inf" /\ b.n # a.n THEN NaN ELSE a
    ELSE IF b.cls = "inf" THEN b
    ELSE Fin(a.n * b.d + b.n * a.d, a.d * b.d)

\* -a in value_type vt.
value_neg(vt, a) ==
    IF a.cls = "fin" THEN Fin(0 - a.n, a.d)
    ELSE IF a.cls = "inf" THEN Inf(0 - a.n)
    ELSE a

\* a - b in value_type vt.
value_sub(vt, a, b) == value_add(vt, a, value_neg(vt, b))

\* a == b of C++: NaN equals nothing, and a trapped run compares nothing.
value_eq(a, b) ==
    /\ a.cls \in {"fin", "inf"}
    /\ a = b

\* a <=> b of C++.
value_compare(a, b) ==
    IF a.cls = "trap" \/ b.cls = "trap" THEN "trap"
    ELSE IF a.cls = "nan" \/ b.cls = "nan" THEN "unordered"
    ELSE IF a = b THEN "equivalent"
    ELSE IF a.cls = "inf" THEN (IF a.n < 0 THEN "less" ELSE "greater")
    ELSE IF b.cls = "inf" THEN (IF b.n < 0 THEN "greater" ELSE "less")
    ELSE IF a.n * b.d < b.n * a.d THEN "less" ELSE "greater"

\* a op b of the built-in operator op in value_type vt.
binary_operation(vt, op, a, b, ub) ==
    CASE op = "+" -> value_add(vt, a, b)
      [] op = "-" -> value_sub(vt, a, b)
      [] op = "*" -> value_mul(vt, a, b)
      [] op = "/" -> value_div(vt, a, b, ub)

(***************************************************************************)
(* Quantity.hpp.  A quantity<DIMENSION, VALUE_TYPE> is its two template    *)
(* arguments and its member mStandardValue.  A use that does not compile   *)
(* (no viable overload, a requires-clause or a concept not satisfied) has  *)
(* the result NoType; one that does has the result Value(x).               *)
(***************************************************************************)
Value(x) == [ok |-> TRUE, val |-> x]

\* quantity(std::in_place_t, value_type).
quantity(DIMENSION, VALUE_TYPE, aStandardValue) ==
    [class |-> "quantity", dimension |-> DIMENSION, value_type |-> VALUE_TYPE,
     mStandardValue |-> aStandardValue]

\* quantity::is_scalar with every dimension taken for empty.
is_scalar_Always(DIMENSION) == TRUE

\* quantity::is_scalar.
is_scalar(DIMENSION) == empty_dimension(DIMENSION)

\* quantity(value_type) requires is_scalar.
quantity_from_value(DIMENSION, VALUE_TYPE, aValue) ==
    IF is_scalar(DIMENSION)
    THEN Value(quantity(DIMENSION, VALUE_TYPE, aValue))
    ELSE NoType

\* operator=(value_type) requires is_scalar.
quantity_assign_value(q, aValue) ==
    IF is_scalar(q.dimension)
    THEN Value([q EXCEPT !.mStandardValue = aValue])
    ELSE NoType

get_standard(q) == q.mStandardValue

\* operator value_type() requires is_scalar.
quantity_to_value(q) ==
    IF is_scalar(q.dimension) THEN Value(q.mStandardValue) ELSE NoType

\* operator+(const quantity&, T) requires is_scalar.
quantity_plus_value(aLeft, aRight) ==
    IF is_scalar(aLeft.dimension)
    THEN Value(quantity(aLeft.dimension, aLeft.value_type,
                        value_add(aLeft.value_type, get_standard(aLeft), aRight)))
    ELSE NoType

\* operator+(T, const quantity&) requires is_scalar.
value_plus_quantity(aLeft, aRight) ==
    IF is_scalar(aRight.dimension)
    THEN Value(quantity(aRight.dimension, aRight.value_type,
                        value_add(aRight.value_type, aLeft, get_standard(aRight))))
    ELSE NoType

\* operator-(const quantity&, T) requires is_scalar.
quantity_minus_value(aLeft, aRight) ==
    IF is_scalar(aLeft.dimension)
    THEN Value(quantity(aLeft.dimension, aLeft.value_type,
                        value_sub(aLeft.value_type, get_standard(aLeft), aRight)))
    ELSE NoType

\* operator-(T, const quantity&) requires is_scalar.
value_minus_quantity(aLeft, aRight) ==
    IF is_scalar(aRight.dimension)
    THEN Value(quantity(aRight.dimension, aRight.value_type,
                        value_sub(aRight.value_type, aLeft, get_standard(aRight))))
    ELSE NoType

\* operator<=>(const quantity&, T) requires is_scalar.
quantity_compare_value(aLeft, aRight) ==
    IF is_scalar(aLeft.dimension)
    THEN Value(value_compare(get_standard(aLeft), aRight))
    ELSE NoType

\* operator<=>(T, const quantity&) requires is_scalar.
value_compare_quantity(aLeft, aRight) ==
    IF is_scalar(aRight.dimension)
    THEN Value(value_compare(aLeft, get_standard(aRight)))
    ELSE NoType

\* operator*(const quantity&, T).
quantity_times_value(aLeft, aRight) ==
    Value(quantity(aLeft.dimension, aLeft.value_type,
                   value_mul(aLeft.value_type, get_standard(aLeft), aRight)))

\* operator*(T, const quantity&).
value_times_quantity(aLeft, aRight) ==
    Value(quantity(aRight.dimension, aRight.value_type,
                   value_mul(aRight.value_type, aLeft, get_standard(aRight))))

\* operator/(const quantity&, T).
quantity_divide_value(aLeft, aRight, ub) ==
    Value(quantity(aLeft.dimension, aLeft.value_type,
                   value_div(aLeft.value_type, get_standard(aLeft), aRight, ub)))

\* product_t<L, R> and its like: the type of L() * R() after the usual
\* arithmetic conversions.
product_t(L, R) == IF L = R THEN L ELSE "double"

\* operator*(const quantity&, const quantity<RDIM, T>&): the return type
\* names dimension_product_t<dimension, RDIM>.
quantity_times(aLeft, aRight) ==
    LET dim == dimension_product_t(aLeft.dimension, aRight.dimension)
        vt  == product_t(aLeft.value_type, aRight.value_type)
    IN  IF dim.ok
        THEN Value(quantity(dim.type, vt,
                            value_mul(vt, get_standard(aLeft), get_standard(aRight))))
        ELSE NoType

\* operator/ between quantities naming the product of the dimensions.
quantity_divide_ProductDimension(aLeft, aRight, ub) ==
    LET dim == dimension_product_t(aLeft.dimension, aRight.dimension)
        vt  == product_t(aLeft.value_type, aRight.value_type)
    IN  IF dim.ok
        THEN Value(quantity(dim.type, vt,
                            value_div(vt, get_standard(aLeft),
                                      get_standard(aRight), ub)))
        ELSE NoType

\* operator/(const quantity&, const quantity<RDIM, T>&): the return type
\* names dimension_quotient_t<dimension, RDIM> and quotient_t<value_type, T>.
quantity_divide(aLeft, aRight, ub) ==
    LET dim == dimension_quotient_t(aLeft.dimension, aRight.dimension)
        vt  == product_t(aLeft.value_type, aRight.value_type)
    IN  IF dim.ok
        THEN Value(quantity(dim.type, vt,
                            value_div(vt, get_standard(aLeft),
                                      get_standard(aRight), ub)))
        ELSE NoType

\* operator/(T, const quantity&): the return type names
\* dimension_inverse_t<dimension>.
value_divide_quantity(aLeft, aRight, ub) ==
    LET dim == dimension_inverse_t(aRight.dimension)
    IN  IF dim.ok
        THEN Value(quantity(dim.type, aRight.value_type,
                            value_div(aRight.value_type, aLeft,
                                      get_standard(aRight), ub)))
        ELSE NoType

\* operator-() const.
quantity_negate(q) ==
    quantity(q.dimension, q.value_type,
             value_neg(q.value_type, q.mStandardValue))

\* operator+(const quantity&, const quantity<dimension, T>&).
quantity_plus(aLeft, aRight) ==
    LET vt == product_t(aLeft.value_type, aRight.value_type)
    IN  IF aLeft.dimension = aRight.dimension
        THEN Value(quantity(aLeft.dimension, vt,
                            value_add(vt, get_standard(aLeft),
                                      get_standard(aRight))))
        ELSE NoType

\* operator-(const quantity&, const quantity<dimension, T>&).
quantity_minus(aLeft, aRight) ==
    LET vt == product_t(aLeft.value_type, aRight.value_type)
    IN  IF aLeft.dimension = aRight.dimension
        THEN Value(quantity(aLeft.dimension, vt,
                            value_sub(vt, get_standard(aLeft),
                                      get_standard(aRight))))
        ELSE NoType

\* A raw number of the arithmetic type T.
arithmetic(T, aValue) ==
    [class |-> "arithmetic", value_type |-> T, value |-> aValue]

\* The value x of the arithmetic type T converted to the arithmetic type VT:
\* a double converted to int is truncated toward zero, and a double that is
\* not finite has no defined int (ub).
convert(T, VT, x, ub) ==
    IF T = VT \/ VT = "double" \/ x.cls = "trap" THEN x
    ELSE IF x.cls = "fin" THEN Fin(IntDiv(x.n, x.d), 1)
    ELSE ub

\* An object converts implicitly to an arithmetic type: a raw number does,
\* and a scalar quantity does by operator value_type(); a quantity that is
\* not scalar, a linear_unit and an absolute declare no conversion.
converts_to_value_type(x) ==
    \/ x.class = "arithmetic"
    \/ x.class = "quantity" /\ is_scalar(x.dimension)

\* The value handed to a parameter `VT aValue` by the argument x.
value_argument(VT, x, ub) ==
    IF x.class = "arithmetic"
    THEN convert(x.value_type, VT, x.value, ub)
    ELSE convert(x.value_type, VT, get_standard(x), ub)

\* quantity::scalar_type.
scalar_type(DIMENSION, VALUE_TYPE) ==
    [dimension |-> dimension_exponent_t(DIMENSION, 0, 1).type,
     value_type |-> VALUE_TYPE]

\* set_standard_value(value_type).
set_standard_value(self, aValue) == [self EXCEPT !.mStandardValue = aValue]

\* mStandardValue op aValue of the in-place operator op, in value_type vt:
\* E1 op= E2 is E1 = E1 op E2.
compound_assignment(vt, op, a, b, ub) ==
    CASE op = "+=" -> binary_operation(vt, "+", a, b, ub)
      [] op = "-=" -> binary_operation(vt, "-", a, b, ub)
      [] op = "*=" -> binary_operation(vt, "*", a, b, ub)
      [] op = "/=" -> binary_operation(vt, "/", a, b, ub)

\* Overload 1 of the in-place operators: operator+=(value_type) and
\* operator-=(value_type) require is_scalar, operator*=(value_type) and
\* operator/=(value_type) do not.
quantity_in_place_value(self, op, aValue, ub) ==
    IF op \in {"+=", "-="} => is_scalar(self.dimension)
    THEN Value(set_standard_value(self,
                   compound_assignment(self.value_type, op,
                                       self.mStandardValue, aValue, ub)))
    ELSE NoType

\* Overload 2 with the left operand kept as it was.
quantity_in_place_other_Unchanged(self, op, aOther, ub) == Value(self)

\* Overload 2 of the in-place operators: operator+=(const quantity&),
\* operator-=(const quantity&), operator*=(const scalar_type&) and
\* operator/=(const scalar_type&).
quantity_in_place_other(self, op, aOther, ub) ==
    Value(set_standard_value(self,
              compound_assignment(self.value_type, op, self.mStandardValue,
                                  get_standard(aOther), ub)))

\* The argument x binds to the reference parameter of overload 2.
binds_to_other(self, op, x) ==
    /\ x.class = "quantity"
    /\ x.value_type = self.value_type
    /\ x.dimension
          = IF op \in {"+=", "-="} THEN self.dimension
            ELSE scalar_type(self.dimension, self.value_type).dimension

\* The statement `self op x`: overload 2 for an argument of its parameter
\* type, otherwise overload 1 for an argument that converts to value_type,
\* otherwise no overload.
quantity_in_place(self, op, x, ub) ==
    IF binds_to_other(self, op, x)
    THEN quantity_in_place_other(self, op, x, ub)
    ELSE IF converts_to_value_type(x)
    THEN quantity_in_place_value(self, op,
                                 value_argument(self.value_type, x, ub), ub)
    ELSE NoType

\* The left operand of an operator template taking (const quantity&, T)
\* as the body computes with it: its standard value converted to the type of
\* value_type() op T().
promoted(aLeft, T) ==
    quantity(aLeft.dimension, product_t(aLeft.value_type, T),
             get_standard(aLeft))

\* The expression `aLeft op x` of a quantity aLeft: the operator template
\* for a raw number or for a quantity, and where no template accepts two
\* quantities that both convert to their value types, the built-in operator
\* on the converted values, whose result is a raw number.
quantity_expression(aLeft, op, x, ub) ==
    IF x.class = "arithmetic"
    THEN LET l == promoted(aLeft, x.value_type)
         IN  CASE op = "+" -> quantity_plus_value(l, x.value)
               [] op = "-" -> quantity_minus_value(l, x.value)
               [] op = "*" -> quantity_times_value(l, x.value)
               [] op = "/" -> quantity_divide_value(l, x.value, ub)
    ELSE IF x.class = "quantity"
    THEN LET r == CASE op = "+" -> quantity_plus(aLeft, x)
                    [] op = "-" -> quantity_minus(aLeft, x)
                    [] op = "*" -> quantity_times(aLeft, x)
                    [] op = "/" -> quantity_divide(aLeft, x, ub)
             vt == product_t(aLeft.value_type, x.value_type)
         IN  IF r.ok THEN r
             ELSE IF converts_to_value_type(aLeft) /\ converts_to_value_type(x)
             THEN Value(arithmetic(vt,
                      binary_operation(vt, op, get_standard(aLeft),
                                       get_standard(x), ub)))
             ELSE NoType
    ELSE NoType

(***************************************************************************)
(* LinearUnit.hpp.  A linear_unit<UNIT_DIMENSION, UNIT_VALUE_TYPE> is its  *)
(* two template arguments and its member mConversionFactor.                *)
(***************************************************************************)
\* linear_unit(std::in_place_t, value_type).
linear_unit(UNIT_DIMENSION, UNIT_VALUE_TYPE, aConversionFactor) ==
    [class |-> "linear_unit", dimension |-> UNIT_DIMENSION,
     value_type |-> UNIT_VALUE_TYPE, mConversionFactor |-> aConversionFactor]

\* linear_unit(): mConversionFactor = 1.
linear_unit_default(UNIT_DIMENSION, UNIT_VALUE_TYPE) ==
    linear_unit(UNIT_DIMENSION, UNIT_VALUE_TYPE, Fin(1, 1))

conversion_factor(u) == u.mConversionFactor

\* to_standard_value dividing by the factor.
to_standard_value_Divides(u, aValue) ==
    value_div(u.value_type, aValue, u.mConversionFactor, Trap)

to_standard_value(u, aValue) ==
    value_mul(u.value_type, aValue, u.mConversionFactor)

from_standard_value(u, aValue, ub) ==
    value_div(u.value_type, aValue, u.mConversionFactor, ub)

\* operator()(value_type).
unit_call(u, aValue) ==
    quantity(u.dimension, u.value_type, to_standard_value(u, aValue))

\* get(quantity_type): the argument is a quantity of the unit's dimension
\* and value type.
linear_unit_get(u, aQuantity, ub) ==
    IF /\ aQuantity.class = "quantity"
       /\ aQuantity.dimension = u.dimension
       /\ aQuantity.value_type = u.value_type
    THEN Value(from_standard_value(u, get_standard(aQuantity), ub))
    ELSE NoType

\* scaled_up adding the factor.
scaled_up_Adds(u, aFactor) ==
    linear_unit(u.dimension, u.value_type,
                value_add(u.value_type, u.mConversionFactor, aFactor))

scaled_up(u, aFactor) ==
    linear_unit(u.dimension, u.value_type,
                value_mul(u.value_type, u.mConversionFactor, aFactor))

scaled_down_Subtracts(u, aFactor, ub) ==
    linear_unit(u.dimension, u.value_type,
                value_sub(u.value_type, u.mConversionFactor, aFactor))

scaled_down(u, aFactor, ub) ==
    linear_unit(u.dimension, u.value_type,
                value_div(u.value_type, u.mConversionFactor, aFactor, ub))

\* operator* multiplying the left factor by itself.
linear_unit_times_LeftTwice(aLeft, aRight) ==
    LET dim == dimension_product_t(aLeft.dimension, aRight.dimension)
    IN  IF dim.ok /\ aLeft.value_type = aRight.value_type
        THEN Value(linear_unit(dim.type, aLeft.value_type,
                               value_mul(aLeft.value_type, conversion_factor(aLeft),
                                         conversion_factor(aLeft))))
        ELSE NoType

\* operator*(const linear_unit&, const linear_unit<RDIM, value_type>&).
linear_unit_times(aLeft, aRight) ==
    LET dim == dimension_product_t(aLeft.dimension, aRight.dimension)
    IN  IF dim.ok /\ aLeft.value_type = aRight.value_type
        THEN Value(linear_unit(dim.type, aLeft.value_type,
                               value_mul(aLeft.value_type, conversion_factor(aLeft),
                                         conversion_factor(aRight))))
        ELSE NoType

\* operator/(const linear_unit&, const linear_unit<RDIM, value_type>&).
linear_unit_divide(aLeft, aRight, ub) ==
    LET dim == dimension_quotient_t(aLeft.dimension, aRight.dimension)
    IN  IF dim.ok /\ aLeft.value_type = aRight.value_type
        THEN Value(linear_unit(dim.type, aLeft.value_type,
                               value_div(aLeft.value_type, conversion_factor(aLeft),
                                         conversion_factor(aRight), ub)))
        ELSE NoType

\* The concept unit_type<T, Q> for a linear_unit t and a value q.
unit_type(t, q) ==
    /\ t.dimension = q.dimension
    /\ linear_unit_get(t, q, Trap).ok

\* quantity::get(const UNIT&).
quantity_get(q, aUnit, ub) ==
    IF unit_type(aUnit, q) THEN linear_unit_get(aUnit, q, ub) ELSE NoType

(***************************************************************************)
(* Absolute.hpp.  An absolute<DIMENSION, VALUE_TYPE> is its two template   *)
(* arguments and its member mStandardValue.  The class template declares,  *)
(* among its friends, an operator+ whose first parameter is written        *)
(* quantity_type<dimension, T> and an operator== defaulted with the        *)
(* declared return type auto.  A compiler checks both declarations when it *)
(* reads the class template, so a program that includes the header is      *)
(* rejected whatever it goes on to use.                                    *)
(***************************************************************************)
\* absolute(std::in_place_t, value_type).
absolute(DIMENSION, VALUE_TYPE, aStandardValue) ==
    [class |-> "absolute", dimension |-> DIMENSION, value_type |-> VALUE_TYPE,
     mStandardValue |-> aStandardValue]

\* using quantity_type = quantity<dimension, value_type>: the name of a
\* type, which takes no template arguments.
quantity_type_is_template == FALSE

\* The declared return type of the defaulted operator==.
equality_return_type == "auto"

\* The declarations of the class template are well-formed: the template
\* argument list after quantity_type needs a template, and a defaulted
\* operator== must be declared to return bool.
absolute_is_well_formed ==
    /\ quantity_type_is_template
    /\ equality_return_type = "bool"

\* The left and right operands are of one absolute<DIMENSION, VALUE_TYPE>,
\* or an absolute and its quantity_type.
SameInstance(aLeft, aRight) ==
    /\ aLeft.dimension = aRight.dimension
    /\ aLeft.value_type = aRight.value_type

\* operator+(const absolute&, const quantity_type&).
absolute_plus_quantity(aLeft, aRight) ==
    IF absolute_is_well_formed /\ SameInstance(aLeft, aRight)
    THEN Value(absolute(aLeft.dimension, aLeft.value_type,
                        value_add(aLeft.value_type, get_standard(aLeft),
                                  get_standard(aRight))))
    ELSE NoType

\* operator+(const absolute&, T) requires is_scalar.
absolute_plus_value(aLeft, aRight) ==
    IF absolute_is_well_formed /\ is_scalar(aLeft.dimension)
    THEN Value(absolute(aLeft.dimension, aLeft.value_type,
                        value_add(aLeft.value_type, get_standard(aLeft), aRight)))
    ELSE NoType

\* operator+(const quantity_type<dimension, T>&, const absolute&) requires
\* is_scalar: aLeft + aRight.get_standard() is the scalar quantity's
\* operator+(const quantity&, T).
quantity_plus_absolute(aLeft, aRight) ==
    IF /\ absolute_is_well_formed
       /\ is_scalar(aRight.dimension)
       /\ SameInstance(aLeft, aRight)
    THEN Value(absolute(aRight.dimension, aRight.value_type,
                        get_standard(quantity_plus_value(
                            aLeft, get_standard(aRight)).val)))
    ELSE NoType

\* operator+(T, const absolute&) requires is_scalar.
value_plus_absolute(aLeft, aRight) ==
    IF absolute_is_well_formed /\ is_scalar(aRight.dimension)
    THEN Value(absolute(aRight.dimension, aRight.value_type,
                        value_add(aRight.value_type, aLeft, get_standard(aRight))))
    ELSE NoType

\* operator-(const absolute&, const absolute&).
absolute_minus_absolute(aLeft, aRight) ==
    IF absolute_is_well_formed /\ SameInstance(aLeft, aRight)
    THEN Value(quantity(aLeft.dimension, aLeft.value_type,
                        value_sub(aLeft.value_type, get_standard(aLeft),
                                  get_standard(aRight))))
    ELSE NoType

\* operator-(const absolute&, const quantity_type&).
absolute_minus_quantity(aLeft, aRight) ==
    IF absolute_is_well_formed /\ SameInstance(aLeft, aRight)
    THEN Value(absolute(aLeft.dimension, aLeft.value_type,
                        value_sub(aLeft.value_type, get_standard(aLeft),
                                  get_standard(aRight))))
    ELSE NoType

\* operator-(const absolute&, value_type) requires is_scalar.
absolute_minus_value(aLeft, aRight) ==
    IF absolute_is_well_formed /\ is_scalar(aLeft.dimension)
    THEN Value(absolute(aLeft.dimension, aLeft.value_type,
                        value_sub(aLeft.value_type, get_standard(aLeft), aRight)))
    ELSE NoType

\* operator==(const absolute&, const absolute&) = default: the members are
\* compared.
absolute_equal(aLeft, aRight) ==
    IF absolute_is_well_formed /\ SameInstance(aLeft, aRight)
    THEN Value(value_eq(get_standard(aLeft), get_standard(aRight)))
    ELSE NoType

\* absolute::get(const UNIT&) with unit_type<UNIT, absolute>: the body hands
\* *this, an absolute, to from_standard_value(value_type).
absolute_get(a, aUnit, ub) ==
    IF /\ absolute_is_well_formed
       /\ unit_type(aUnit, a)
       /\ converts_to_value_type(a)
    THEN Value(from_standard_value(aUnit, get_standard(a), ub))
    ELSE NoType

\* to_absolute(const quantity<DIMENSION, VALUE_TYPE>&).
to_absolute(aQuantity) ==
    IF absolute_is_well_formed
    THEN Value(absolute(aQuantity.dimension, aQuantity.value_type,
                        get_standard(aQuantity)))
    ELSE NoType

\* to_quantity(const absolute<DIMENSION, VALUE_TYPE>&).
to_quantity(aAbsolute) ==
    IF absolute_is_well_formed
    THEN Value(quantity(aAbsolute.dimension, aAbsolute.value_type,
                        get_standard(aAbsolute)))
    ELSE NoType

(***************************************************************************)
(* The inputs of the dimension algebra: the bases a program may declare    *)
(* and the dimensions over them.                                           *)
(***************************************************************************)
\* Packs of base templates: empty, of one and of two bases, the same two
\* bases in both orders, and one base twice.
BasisChoices ==
    { <<>>, <<"length">>, <<"time">>, <<"length", "time">>,
      <<"time", "length">>, <<"length", "length">> }

ExponentChoices == -MaxExp .. MaxExp

DimensionsOver(BASE_TYPES) ==
    { dimension_t(BASE_TYPES, e) :
        e \in [1..Len(BASE_TYPES) -> ExponentChoices] }

Dimensions == UNION { DimensionsOver(b) : b \in BasisChoices }

PowerChoices == -MaxPow .. MaxPow

(***************************************************************************)
(* The inputs of the value types.                                          *)
(***************************************************************************)
RawValues(vt) ==
    IF vt = "int" THEN { Fin(n, 1) : n \in -MaxNum .. MaxNum }
    ELSE { Fin(n, d) : n \in -MaxNum .. MaxNum, d \in {1, 2} }

\* What an integer division by zero may yield in a run; a double has none.
UBOutcomes(vt) == IF vt = "int" THEN {Trap, Fin(0, 1), Fin(1, 1)} ELSE {NaN}

\* Dimensions of CommonDimensions.hpp.
scalar_dimension == scalar_dimension_type_t(standard_bases).type

length_dimension == unit_dimension_type_t(standard_bases, "length").type

time_dimension == unit_dimension_type_t(standard_bases, "time").type

velocity_dimension == dimension_quotient_t(length_dimension, time_dimension).type

\* The dimensions quantities and units are given: four of the catalog's, one
\* over another basis, the dimension without bases and those of one base.
UnitDimensions ==
    { scalar_dimension, length_dimension, time_dimension, velocity_dimension,
      unit_dimension_type_t(<<"time", "length">>, "length").type }

QuantityDimensions ==
    UnitDimensions \cup DimensionsOver(<<>>) \cup DimensionsOver(<<"length">>)

Units(vt) ==
    { linear_unit(D, vt, f) : D \in UnitDimensions, f \in RawValues(vt) }

Quantities(vt) ==
    { quantity(D, vt, v) : D \in UnitDimensions, v \in RawValues(vt) }

Absolutes(vt) ==
    { absolute(D, vt, v) : D \in UnitDimensions, v \in RawValues(vt) }

(***************************************************************************)
(* The uses of the library a program may write.                            *)
(***************************************************************************)
DimensionCalls ==
    [op : {"dimension_product_t", "dimension_quotient_t"},
     left : Dimensions, right : Dimensions]
    \cup [op : {"dimension_inverse_t", "empty_dimension"}, dim : Dimensions]
    \cup [op : {"dimension_exponent_t"}, dim : Dimensions,
          num : PowerChoices, den : PowerChoices]
    \cup [op : {"scalar_dimension_type_t"},
          bases : BasisChoices \cup {standard_bases}]
    \cup [op : {"unit_dimension_type_t"},
          bases : BasisChoices \cup {standard_bases}, base : BaseTemplates]

\* The scalar-only operations of quantity and those with a raw number that
\* every quantity has.
ScalarOnlyOps ==
    {"quantity_from_value", "quantity_assign_value", "quantity_to_value",
     "quantity_plus_value", "value_plus_quantity", "quantity_minus_value",
     "value_minus_quantity", "quantity_compare_value", "value_compare_quantity"}

RawNumberOps ==
    {"quantity_times_value", "value_times_quantity", "quantity_divide_value"}

QuantityCalls(vt) ==
    [op : (ScalarOnlyOps \cup RawNumberOps) \ {"quantity_divide_value"},
     quantity : { quantity(D, vt, v) :
                    D \in QuantityDimensions, v \in RawValues(vt) },
     value : RawValues(vt)]
    \cup [op : {"quantity_divide_value"},
          quantity : { quantity(D, vt, v) :
                         D \in QuantityDimensions, v \in RawValues(vt) },
          value : RawValues(vt), ub : UBOutcomes(vt)]
    \cup [op : {"quantity_negate"}, quantity : Quantities(vt)]
    \cup [op : {"quantity_times"}, left : Quantities(vt), right : Quantities(vt)]
    \cup [op : {"quantity_divide"}, left : Quantities(vt), right : Quantities(vt),
          ub : UBOutcomes(vt)]
    \cup [op : {"value_divide_quantity"}, value : RawValues(vt),
          quantity : Quantities(vt), ub : UBOutcomes(vt)]
    \cup [op : {"quantity_get"}, quantity : Quantities(vt), unit : Units(vt),
          ub : UBOutcomes(vt)]

LinearUnitCalls(vt) ==
    [op : {"linear_unit_default"}, dimension : UnitDimensions, value_type : {vt}]
    \cup [op : {"linear_unit"}, dimension : UnitDimensions, value_type : {vt},
          value : RawValues(vt)]
    \cup [op : {"conversion_factor"}, unit : Units(vt)]
    \cup [op : {"to_standard_value", "unit_call", "scaled_up"},
          unit : Units(vt), value : RawValues(vt)]
    \cup [op : {"from_standard_value", "scaled_down"},
          unit : Units(vt), value : RawValues(vt), ub : UBOutcomes(vt)]
    \cup [op : {"linear_unit_get"}, unit : Units(vt), quantity : Quantities(vt),
          ub : UBOutcomes(vt)]
    \cup [op : {"linear_unit_times"}, left : Units(vt), right : Units(vt)]
    \cup [op : {"linear_unit_divide"}, left : Units(vt), right : Units(vt),
          ub : UBOutcomes(vt)]

AbsoluteCalls(vt) ==
    [op : {"absolute_minus_absolute", "absolute_equal"},
     left : Absolutes(vt), right : Absolutes(vt)]
    \cup [op : {"absolute_plus_quantity", "absolute_minus_quantity"},
          left : Absolutes(vt), right : Quantities(vt)]
    \cup [op : {"quantity_plus_absolute"},
          left : Quantities(vt), right : Absolutes(vt)]
    \cup [op : {"absolute_plus_value", "absolute_minus_value",
                "value_plus_absolute"},
          absolute : Absolutes(vt), value : RawValues(vt)]
    \cup [op : {"absolute_get"}, absolute : Absolutes(vt), unit : Units(vt),
          ub : UBOutcomes(vt)]
    \cup [op : {"to_absolute"}, quantity : Quantities(vt)]
    \cup [op : {"to_quantity"}, absolute : Absolutes(vt)]

\* The quantities a program declares as receivers: scalar and not.
InPlaceReceivers ==
    UNION { { quantity(D, vt, v) :
                D \in {scalar_dimension, length_dimension},
                v \in RawValues(vt) } : vt \in ValueTypes }

\* The values of the right operands.
OperandValues(T) ==
    IF T = "int" THEN {Fin(0, 1), Fin(2, 1), Fin(-1, 1)}
    ELSE {Fin(0, 1), Fin(1, 2), Fin(-2, 1)}

\* The right operands of += and -= on q: quantities of q's dimension, of
\* both value types.
AdditiveOperands(q) ==
    UNION { { quantity(q.dimension, T, v) : v \in OperandValues(T) } :
            T \in ValueTypes }

\* The right operands of *= and /= on q: raw numbers, scalar quantities over
\* q's basis and over another basis, and quantities that are not scalar, of
\* q's dimension or another, each of both value types.
MultiplicativeOperands(q) ==
    UNION { { arithmetic(T, v) : v \in OperandValues(T) }
            \cup { quantity(D, T, v) :
                     D \in { scalar_type(q.dimension, q.value_type).dimension,
                             <<>>, q.dimension, time_dimension },
                     v \in OperandValues(T) } : T \in ValueTypes }

\* The uses of the in-place operators and of set_standard_value (assignment
\* from a raw number is among the scalar-only operations above).
MutatorCalls(vt) ==
    UNION { [op : {"quantity_plus_assign", "quantity_minus_assign",
                   "quantity_times_assign"},
             quantity : {q}, other : MultiplicativeOperands(q)]
            \cup [op : {"quantity_divide_assign"},
                  quantity : {q}, other : MultiplicativeOperands(q),
                  ub : UBOutcomes(vt)]
            \cup [op : {"set_standard_value"},
                  quantity : {q}, value : RawValues(vt)] :
            q \in { r \in InPlaceReceivers : r.value_type = vt } }

\* The uses of quantity, linear_unit and absolute with the value type vt.
ValueCalls(vt) ==
    QuantityCalls(vt) \cup LinearUnitCalls(vt) \cup AbsoluteCalls(vt)
    \cup MutatorCalls(vt)

Calls == DimensionCalls \cup ValueCalls("double") \cup ValueCalls("int")

(***************************************************************************)
(* The state machine: the program writes one use of the library (Init),    *)
(* and the action of that template or function evaluates it.               *)
(***************************************************************************)
Init ==
    /\ call \in Calls
    /\ pc = "start"
    /\ res = NoType

\* The use `op` is evaluated to `result`.
Evaluate(op, result) ==
    /\ pc = "start"
    /\ call.op = op
    /\ pc' = "done"
    /\ res' = result
    /\ UNCHANGED call

\* The use `op` of a non-const member function is evaluated: the receiver
\* *this becomes `result` and the function returns it; a use that does not
\* compile changes nothing.  The receiver is an object of its own: the
\* right operand is passed by value or by reference to const.
Mutate_WritesOperand(op, result) ==
    /\ pc = "start"
    /\ call.op = op
    /\ pc' = "done"
    /\ res' = result
    /\ call' = IF result.ok
               THEN [f \in DOMAIN call |->
                       IF f \in {"quantity", "other", "value"}
                       THEN result.val ELSE call[f]]
               ELSE call

Mutate(op, result) ==
    /\ pc = "start"
    /\ call.op = op
    /\ pc' = "done"
    /\ res' = result
    /\ call' = IF result.ok THEN [call EXCEPT !.quantity = result.val]
               ELSE call

DimensionProduct ==
    Evaluate("dimension_product_t", dimension_product_t(call.left, call.right))

DimensionInverse ==
    Evaluate("dimension_inverse_t", dimension_inverse_t(call.dim))

DimensionQuotient ==
    Evaluate("dimension_quotient_t", dimension_quotient_t(call.left, call.right))

DimensionExponent ==
    Evaluate("dimension_exponent_t",
             dimension_exponent_t(call.dim, call.num, call.den))

ScalarDimension ==
    Evaluate("scalar_dimension_type_t", scalar_dimension_type_t(call.bases))

UnitDimension ==
    Evaluate("unit_dimension_type_t",
             unit_dimension_type_t(call.bases, call.base))

EmptyDimension ==
    Evaluate("empty_dimension",
             [ok |-> empty_dimension(call.dim), type |-> call.dim])

QuantityFromValue ==
    Evaluate("quantity_from_value",
             quantity_from_value(call.quantity.dimension,
                                 call.quantity.value_type, call.value))

QuantityAssignValue ==
    Mutate("quantity_assign_value",
           quantity_assign_value(call.quantity, call.value))

QuantitySetStandardValue ==
    Mutate("set_standard_value",
           Value(set_standard_value(call.quantity, call.value)))

QuantityPlusAssign ==
    Mutate("quantity_plus_assign",
           quantity_in_place(call.quantity, "+=", call.other, Trap))

QuantityMinusAssign ==
    Mutate("quantity_minus_assign",
           quantity_in_place(call.quantity, "-=", call.other, Trap))

QuantityTimesAssign ==
    Mutate("quantity_times_assign",
           quantity_in_place(call.quantity, "*=", call.other, Trap))

QuantityDivideAssign ==
    Mutate("quantity_divide_assign",
           quantity_in_place(call.quantity, "/=", call.other, call.ub))

QuantityNegate ==
    Evaluate("quantity_negate", Value(quantity_negate(call.quantity)))

QuantityToValue ==
    Evaluate("quantity_to_value", quantity_to_value(call.quantity))

QuantityPlusValue ==
    Evaluate("quantity_plus_value", quantity_plus_value(call.quantity, call.value))

ValuePlusQuantity ==
    Evaluate("value_plus_quantity", value_plus_quantity(call.value, call.quantity))

QuantityMinusValue ==
    Evaluate("quantity_minus_value",
             quantity_minus_value(call.quantity, call.value))

ValueMinusQuantity ==
    Evaluate("value_minus_quantity",
             value_minus_quantity(call.value, call.quantity))

QuantityCompareValue ==
    Evaluate("quantity_compare_value",
             quantity_compare_value(call.quantity, call.value))

ValueCompareQuantity ==
    Evaluate("value_compare_quantity",
             value_compare_quantity(call.value, call.quantity))

QuantityTimesValue ==
    Evaluate("quantity_times_value",
             quantity_times_value(call.quantity, call.value))

ValueTimesQuantity ==
    Evaluate("value_times_quantity",
             value_times_quantity(call.value, call.quantity))

QuantityDivideValue ==
    Evaluate("quantity_divide_value",
             quantity_divide_value(call.quantity, call.value, call.ub))

QuantityTimes ==
    Evaluate("quantity_times", quantity_times(call.left, call.right))

QuantityDivide ==
    Evaluate("quantity_divide", quantity_divide(call.left, call.right, call.ub))

ValueDivideQuantity ==
    Evaluate("value_divide_quantity",
             value_divide_quantity(call.value, call.quantity, call.ub))

QuantityGet ==
    Evaluate("quantity_get", quantity_get(call.quantity, call.unit, call.ub))

AbsolutePlusQuantity ==
    Evaluate("absolute_plus_quantity",
             absolute_plus_quantity(call.left, call.right))

AbsolutePlusValue ==
    Evaluate("absolute_plus_value",
             absolute_plus_value(call.absolute, call.value))

QuantityPlusAbsolute ==
    Evaluate("quantity_plus_absolute",
             quantity_plus_absolute(call.left, call.right))

ValuePlusAbsolute ==
    Evaluate("value_plus_absolute",
             value_plus_absolute(call.value, call.absolute))

AbsoluteMinusAbsolute ==
    Evaluate("absolute_minus_absolute",
             absolute_minus_absolute(call.left, call.right))

AbsoluteMinusQuantity ==
    Evaluate("absolute_minus_quantity",
             absolute_minus_quantity(call.left, call.right))

AbsoluteMinusValue ==
    Evaluate("absolute_minus_value",
             absolute_minus_value(call.absolute, call.value))

AbsoluteEqual ==
    Evaluate("absolute_equal", absolute_equal(call.left, call.right))

AbsoluteGet ==
    Evaluate("absolute_get", absolute_get(call.absolute, call.unit, call.ub))

ToAbsolute ==
    Evaluate("to_absolute", to_absolute(call.quantity))

ToQuantity ==
    Evaluate("to_quantity", to_quantity(call.absolute))

LinearUnitDefault ==
    Evaluate("linear_unit_default",
             Value(linear_unit_default(call.dimension, call.value_type)))

LinearUnitInPlace ==
    Evaluate("linear_unit",
             Value(linear_unit(call.dimension, call.value_type, call.value)))

ConversionFactor ==
    Evaluate("conversion_factor", Value(conversion_factor(call.unit)))

ToStandardValue ==
    Evaluate("to_standard_value", Value(to_standard_value(call.unit, call.value)))

FromStandardValue ==
    Evaluate("from_standard_value",
             Value(from_standard_value(call.unit, call.value, call.ub)))

UnitCall ==
    Evaluate("unit_call", Value(unit_call(call.unit, call.value)))

LinearUnitGet ==
    Evaluate("linear_unit_get",
             linear_unit_get(call.unit, call.quantity, call.ub))

ScaledUp ==
    Evaluate("scaled_up", Value(scaled_up(call.unit, call.value)))

ScaledDown ==
    Evaluate("scaled_down", Value(scaled_down(call.unit, call.value, call.ub)))

LinearUnitTimes ==
    Evaluate("linear_unit_times", linear_unit_times(call.left, call.right))

LinearUnitDivide ==
    Evaluate("linear_unit_divide",
             linear_unit_divide(call.left, call.right, call.ub))

Next ==
    \/ DimensionProduct
    \/ DimensionInverse
    \/ DimensionQuotient
    \/ DimensionExponent
    \/ ScalarDimension
    \/ UnitDimension
    \/ EmptyDimension
    \/ QuantityFromValue
    \/ QuantityAssignValue
    \/ QuantitySetStandardValue
    \/ QuantityPlusAssign
    \/ QuantityMinusAssign
    \/ QuantityTimesAssign
    \/ QuantityDivideAssign
    \/ QuantityNegate
    \/ QuantityToValue
    \/ QuantityPlusValue
    \/ ValuePlusQuantity
    \/ QuantityMinusValue
    \/ ValueMinusQuantity
    \/ QuantityCompareValue
    \/ ValueCompareQuantity
    \/ QuantityTimesValue
    \/ ValueTimesQuantity
    \/ QuantityDivideValue
    \/ QuantityTimes
    \/ QuantityDivide
    \/ ValueDivideQuantity
    \/ QuantityGet
    \/ LinearUnitDefault
    \/ LinearUnitInPlace
    \/ ConversionFactor
    \/ ToStandardValue
    \/ FromStandardValue
    \/ UnitCall
    \/ LinearUnitGet
    \/ ScaledUp
    \/ ScaledDown
    \/ LinearUnitTimes
    \/ LinearUnitDivide
    \/ AbsolutePlusQuantity
    \/ AbsolutePlusValue
    \/ QuantityPlusAbsolute
    \/ ValuePlusAbsolute
    \/ AbsoluteMinusAbsolute
    \/ AbsoluteMinusQuantity
    \/ AbsoluteMinusValue
    \/ AbsoluteEqual
    \/ AbsoluteGet
    \/ ToAbsolute
    \/ ToQuantity

Spec == Init /\ [][Next]_vars

(***************************************************************************)
(* A program that declares a quantity q and then applies in-place          *)
(* operators to it, one statement at a time, while it computes the same    *)
(* operations on the same operands with the non-mutating operators:        *)
(*   call  the statement executed last: its operator, the static type of   *)
(*         its right operand, whether it compiled, and the receiver q      *)
(*         (self) with the type it was declared with;                      *)
(*   pc    the number of statements executed;                              *)
(*   res   the value of the expression built with the non-mutating         *)
(*         operators.                                                      *)
(***************************************************************************)
\* The static type of an object: its class and template arguments.
type_of(x) ==
    [class |-> x.class, value_type |-> x.value_type,
     dimension |-> IF x.class = "arithmetic" THEN <<>> ELSE x.dimension]

InPlaceInit ==
    /\ \E q \in InPlaceReceivers :
          /\ call = [op |-> "declare", other |-> type_of(q), accepted |-> TRUE,
                     declared |-> type_of(q), self |-> q]
          /\ res = Value(q)
    /\ pc = 0

\* The statement `q op= x` is compiled and executed, and with it the
\* expression `e op x`; a statement that does not compile leaves no program
\* to run.
InPlaceStatement(op, x, ub) ==
    LET r == quantity_in_place(call.self, op \o "=", x, ub)
    IN  /\ pc < MaxSteps
        /\ call.accepted
        /\ call.self.mStandardValue.cls # "trap"
        /\ res.ok /\ res.val.class = "quantity"
        /\ pc' = pc + 1
        /\ call' = [call EXCEPT !.op = op \o "=", !.other = type_of(x),
                                !.accepted = r.ok,
                                !.self = IF r.ok THEN r.val ELSE @]
        /\ res' = quantity_expression(res.val, op, x, ub)

PlusAssign ==
    \E x \in AdditiveOperands(call.self) : InPlaceStatement("+", x, Trap)

MinusAssign ==
    \E x \in AdditiveOperands(call.self) : InPlaceStatement("-", x, Trap)

TimesAssign ==
    \E x \in MultiplicativeOperands(call.self) :
        InPlaceStatement("*", x, Trap)

DivideAssign ==
    \E x \in MultiplicativeOperands(call.self), ub \in UBOutcomes("int") :
        InPlaceStatement("/", x, ub)

InPlaceNext ==
    \/ PlusAssign
    \/ MinusAssign
    \/ TimesAssign
    \/ DivideAssign

InPlaceSpec == InPlaceInit /\ [][InPlaceNext]_vars

(***************************************************************************)
(* The properties of the dimension algebra.                                *)
(***************************************************************************)
Done(op) == pc = "done" /\ call.op = op

\* Two dimensions are built over the identical ordered basis.
SameOrderedBasis(A, B) ==
    /\ Len(A) = Len(B)
    /\ \A i \in 1..Len(A) : A[i].base = B[i].base

\* The dimension over A's basis with every exponent 0.
ScalarOver(A) == [i \in 1..Len(A) |-> [base |-> A[i].base, exp |-> 0]]

\* d evenly divides x.
Divides(d, x) == \E k \in -Abs(x)..Abs(x) : x = k * d

\* C1: product(A, B) is defined exactly when A and B are built over the
\* identical ordered basis; the result then has at every position the basis'
\* base and the sum of the two exponents; otherwise no dimension is produced.
C1_ProductDefinedIffSameBasis ==
    Done("dimension_product_t") =>
        /\ res.ok <=> SameOrderedBasis(call.left, call.right)
        /\ res.ok =>
              /\ Len(res.type) = Len(call.left)
              /\ \A i \in 1..Len(call.left) :
                    /\ res.type[i].base = call.left[i].base
                    /\ res.type[i].exp = call.left[i].exp + call.right[i].exp
        /\ ~res.ok => res = NoType

\* A product of two dimensions over one basis of two bases was formed, with
\* different exponents on the two sides.
C1_Witness ==
    /\ Done("dimension_product_t")
    /\ res.ok
    /\ Len(call.left) = 2
    /\ call.left[1].exp = 1 /\ call.right[1].exp = -2
    /\ call.left[2].exp = 2 /\ call.right[2].exp = 2

\* C2: over one basis the product is commutative, and associative with
\* every third dimension C over that basis.
C2_ProductCommutativeAssociative ==
    (Done("dimension_product_t") /\ SameOrderedBasis(call.left, call.right)) =>
        /\ res.ok
        /\ res = dimension_product_t(call.right, call.left)
        /\ \A C \in DimensionsOver(BaseTypesOf(call.left)) :
              LET bc == dimension_product_t(call.right, C)
              IN  /\ bc.ok
                  /\ dimension_product_t(res.type, C)
                        = dimension_product_t(call.left, bc.type)
                  /\ dimension_product_t(res.type, C).ok

\* A product of two different dimensions over one basis was formed.
C2_Witness ==
    /\ Done("dimension_product_t")
    /\ res.ok
    /\ Len(call.left) = 2
    /\ call.left # call.right
    /\ call.left[1].exp = 2 /\ call.right[1].exp = -1

\* C3: inverse(A) negates every exponent, and product(A, inverse(A)) and
\* quotient(A, A) are the scalar dimension of A's basis.
C3_InverseAndQuotientGiveScalar ==
    /\ Done("dimension_inverse_t") =>
          /\ res.ok
          /\ Len(res.type) = Len(call.dim)
          /\ \A i \in 1..Len(call.dim) :
                /\ res.type[i].base = call.dim[i].base
                /\ res.type[i].exp = 0 - call.dim[i].exp
          /\ dimension_product_t(call.dim, res.type) = Type(ScalarOver(call.dim))
    /\ (Done("dimension_quotient_t") /\ call.left = call.right) =>
          res = Type(ScalarOver(call.left))

\* The inverse of a dimension with a positive and a negative exponent was
\* formed.
C3_Witness ==
    /\ Done("dimension_inverse_t")
    /\ res.ok
    /\ Len(call.dim) = 2
    /\ call.dim[1].exp = 2 /\ call.dim[2].exp = -1

\* C4: power(A, num, den) is accepted exactly when den is not 0 and den
\* evenly divides exponent*num at every position; every exponent of the
\* result is then exactly exponent*num/den; otherwise no dimension is
\* produced.
C4_PowerAcceptedIffExact ==
    Done("dimension_exponent_t") =>
        /\ res.ok <=>
              /\ call.den # 0
              /\ \A i \in 1..Len(call.dim) :
                    Divides(call.den, call.dim[i].exp * call.num)
        /\ res.ok =>
              /\ Len(res.type) = Len(call.dim)
              /\ \A i \in 1..Len(call.dim) :
                    /\ res.type[i].base = call.dim[i].base
                    /\ res.type[i].exp * call.den = call.dim[i].exp * call.num
        /\ ~res.ok => res = NoType

\* A power with a negative denominator other than -1 was accepted for a
\* dimension with a negative and a positive exponent.
C4_Witness ==
    /\ Done("dimension_exponent_t")
    /\ res.ok
    /\ call.den = -2 /\ call.num = 3
    /\ Len(call.dim) = 2
    /\ call.dim[1].exp = -2 /\ call.dim[2].exp = 2
    /\ res.type[1].exp = 3 /\ res.type[2].exp = -3

\* product(A, ..., A) of n factors, n >= 1.
RECURSIVE NFoldProduct(_, _)
NFoldProduct(A, n) ==
    IF n = 1 THEN Type(A)
    ELSE dimension_product_t(NFoldProduct(A, n - 1).type, A)

\* C5: for a positive integer n, power(A, n, 1) is accepted and is the
\* n-fold product of A with itself.
C5_PowerIsRepeatedProduct ==
    (Done("dimension_exponent_t") /\ call.den = 1 /\ call.num >= 1) =>
        /\ res.ok
        /\ res = NFoldProduct(call.dim, call.num)

\* The third power of a dimension with non-zero exponents was formed.
C5_Witness ==
    /\ Done("dimension_exponent_t")
    /\ call.den = 1 /\ call.num = 3
    /\ Len(call.dim) = 2
    /\ call.dim[1].exp = 1 /\ call.dim[2].exp = -2
    /\ res.ok

\* C6: unit_dimension(basis, base_kind) is rejected when base_kind is not in
\* the basis, and is otherwise the dimension over the basis with exponent 1
\* where the basis holds base_kind and 0 at every other position;
\* scalar(basis) is the dimension over the basis with every exponent 0.
C6_UnitAndScalarDimension ==
    /\ Done("unit_dimension_type_t") =>
          /\ res.ok <=> \E i \in 1..Len(call.bases) : call.bases[i] = call.base
          /\ res.ok =>
                /\ Len(res.type) = Len(call.bases)
                /\ \A i \in 1..Len(call.bases) :
                      /\ res.type[i].base = call.bases[i]
                      /\ call.bases[i] = call.base => res.type[i].exp = 1
                      /\ call.bases[i] # call.base => res.type[i].exp = 0
          /\ ~res.ok => res = NoType
    /\ Done("scalar_dimension_type_t") =>
          /\ res.ok
          /\ Len(res.type) = Len(call.bases)
          /\ \A i \in 1..Len(call.bases) :
                res.type[i] = [base |-> call.bases[i], exp |-> 0]

\* mass_dimension was formed over the library's standard bases.
C6_Witness ==
    /\ Done("unit_dimension_type_t")
    /\ call.bases = standard_bases
    /\ call.base = "mass"
    /\ res.ok
    /\ res.type[3].exp = 1

(***************************************************************************)
(* The properties of quantity and linear_unit.                             *)
(***************************************************************************)
\* Every exponent of D is 0.
AllExponentsZero(D) == \A i \in 1..Len(D) : D[i].exp = 0

Zero == Fin(0, 1)

\* C7: the scalar-only operations of Quantity<D> (construction and
\* assignment from a raw number, conversion to a raw number, + and - and
\* comparison with a raw number) are permitted exactly when every exponent
\* of D is 0; * and / by a raw number are permitted for every D and give a
\* Quantity of dimension D.
C7_ScalarOnlyOperationsGated ==
    /\ (pc = "done" /\ call.op \in ScalarOnlyOps) =>
          (res.ok <=> AllExponentsZero(call.quantity.dimension))
    /\ (pc = "done" /\ call.op \in RawNumberOps) =>
          /\ res.ok
          /\ res.val.class = "quantity"
          /\ res.val.dimension = call.quantity.dimension

\* A raw number was added to a quantity of the dimension length, and the
\* compiler refused it.
C7_Witness ==
    /\ Done("quantity_plus_value")
    /\ call.quantity.dimension = length_dimension
    /\ ~res.ok

\* The round trip through the unit of the use: from_standard_value of
\* to_standard_value's result, and get (both ways) of the call operator's.
RoundTripReturnsValue ==
    /\ Done("to_standard_value") =>
          \A ub \in UBOutcomes(call.unit.value_type) :
              value_eq(from_standard_value(call.unit, res.val, ub), call.value)
    /\ Done("unit_call") =>
          \A ub \in UBOutcomes(call.unit.value_type) :
              /\ quantity_get(res.val, call.unit, ub).ok
              /\ value_eq(quantity_get(res.val, call.unit, ub).val, call.value)
              /\ linear_unit_get(call.unit, res.val, ub).ok
              /\ value_eq(linear_unit_get(call.unit, res.val, ub).val, call.value)

\* C8 as claimed: for any LinearUnit U, whatever its conversion factor, and
\* any raw value v, U.from_standard_value(U.to_standard_value(v)) == v, and
\* for q = U(v) both q.get(U) and U.get(q) return v.
C8_RoundTripAnyFactor == RoundTripReturnsValue

\* C8 as amended: the round trip returns v for every LinearUnit whose
\* conversion factor is not zero (in exact arithmetic).
C8_RoundTripNonZeroFactor ==
    (pc = "done" /\ call.op \in {"to_standard_value", "unit_call"}
       /\ conversion_factor(call.unit) # Zero)
      => RoundTripReturnsValue

\* A unit of factor 1/2 was applied to the raw value 2.
C8_Witness ==
    /\ Done("unit_call")
    /\ conversion_factor(call.unit) = Fin(1, 2)
    /\ call.value = Fin(2, 1)
    /\ res.val.mStandardValue = Fin(1, 1)

\* The unit of the use and the unit made of it have one dimension and one
\* value type.
SameUnitType(u, v) ==
    /\ v.class = "linear_unit"
    /\ v.dimension = u.dimension
    /\ v.value_type = u.value_type

\* A value v given in the unit `from` and read in the unit `to` is v * k.
ConvertsTimes(from, to, k) ==
    \A v \in RawValues(from.value_type), ub \in UBOutcomes(from.value_type) :
        LET g == quantity_get(unit_call(from, v), to, ub)
        IN  g.ok /\ value_eq(g.val, value_mul(from.value_type, v, k))

\* scaled_up(k) and scaled_down(k) give a unit of the same dimension whose
\* factor is the factor multiplied, respectively divided, by k.
ScaledFactor ==
    /\ Done("scaled_up") =>
          /\ SameUnitType(call.unit, res.val)
          /\ conversion_factor(res.val)
                = value_mul(call.unit.value_type, conversion_factor(call.unit),
                            call.value)
    /\ Done("scaled_down") =>
          /\ SameUnitType(call.unit, res.val)
          /\ conversion_factor(res.val)
                = value_div(call.unit.value_type, conversion_factor(call.unit),
                            call.value, call.ub)

\* C9 as claimed: the factor is multiplied or divided by k, and for every
\* unit U, V = U.scaled_up(k) and W = U.scaled_down(k), V(v).get(U) == v*k
\* and U(v).get(W) == v*k for every raw v.
C9_ScaledConversionAnyUnit ==
    /\ ScaledFactor
    /\ Done("scaled_up") => ConvertsTimes(res.val, call.unit, call.value)
    /\ Done("scaled_down") => ConvertsTimes(call.unit, res.val, call.value)

\* In the value type vt the division f / k is exact: always in "double"
\* (up to rounding), and in "int" when k evenly divides f.
ExactQuotient(vt, f, k) == vt = "int" => (k.n # 0 /\ Divides(k.n, f.n))

\* C9 as amended: the factor is multiplied or divided by k; V(v).get(U) ==
\* v*k when U's factor is not zero, and U(v).get(W) == v*k when U's factor
\* is not zero and, in an integer value type, k evenly divides it.
C9_ScaledConversionNonZeroFactor ==
    /\ ScaledFactor
    /\ (Done("scaled_up") /\ conversion_factor(call.unit) # Zero)
          => ConvertsTimes(res.val, call.unit, call.value)
    /\ (Done("scaled_down") /\ conversion_factor(call.unit) # Zero
           /\ ExactQuotient(call.unit.value_type, conversion_factor(call.unit),
                             call.value))
          => ConvertsTimes(call.unit, res.val, call.value)

\* A unit of factor 1/2 was scaled down by 2 to a unit of factor 1/4.
C9_Witness ==
    /\ Done("scaled_down")
    /\ conversion_factor(call.unit) = Fin(1, 2)
    /\ call.value = Fin(2, 1)
    /\ conversion_factor(res.val) = Fin(1, 4)

\* A*B and A/B exist exactly over one ordered basis, with the dimension
\* product(DA, DB), quotient(DA, DB) and the factor fA*fB, fA/fB.
CompoundUnit ==
    /\ Done("linear_unit_times") =>
          /\ res.ok <=> SameOrderedBasis(call.left.dimension, call.right.dimension)
          /\ res.ok =>
                /\ res.val.class = "linear_unit"
                /\ res.val.value_type = call.left.value_type
                /\ Len(res.val.dimension) = Len(call.left.dimension)
                /\ \A i \in 1..Len(call.left.dimension) :
                      /\ res.val.dimension[i].base = call.left.dimension[i].base
                      /\ res.val.dimension[i].exp
                            = call.left.dimension[i].exp
                              + call.right.dimension[i].exp
                /\ conversion_factor(res.val)
                      = value_mul(call.left.value_type,
                                  conversion_factor(call.left),
                                  conversion_factor(call.right))
    /\ Done("linear_unit_divide") =>
          /\ res.ok <=> SameOrderedBasis(call.left.dimension, call.right.dimension)
          /\ res.ok =>
                /\ res.val.class = "linear_unit"
                /\ res.val.value_type = call.left.value_type
                /\ Len(res.val.dimension) = Len(call.left.dimension)
                /\ \A i \in 1..Len(call.left.dimension) :
                      /\ res.val.dimension[i].base = call.left.dimension[i].base
                      /\ res.val.dimension[i].exp
                            = call.left.dimension[i].exp
                              - call.right.dimension[i].exp
                /\ conversion_factor(res.val)
                      = value_div(call.left.value_type,
                                  conversion_factor(call.left),
                                  conversion_factor(call.right), call.ub)

\* (A(x)*B(y)).get(A*B) is x*y for all raw x and y, A*B being the result of
\* the use.
CompoundRecovers ==
    \A x \in RawValues(call.left.value_type),
       y \in RawValues(call.left.value_type),
       ub \in UBOutcomes(call.left.value_type) :
        LET q == quantity_times(unit_call(call.left, x), unit_call(call.right, y))
            g == quantity_get(q.val, res.val, ub)
        IN  /\ q.ok
            /\ g.ok
            /\ value_eq(g.val, value_mul(call.left.value_type, x, y))

\* C10 as claimed: A*B and A/B have the dimension product(DA, DB),
\* quotient(DA, DB) and the factor fA*fB, fA/fB, and (A(x)*B(y)).get(A*B)
\* recovers x*y, for all units A and B.
C10_CompoundUnitAnyFactor ==
    /\ CompoundUnit
    /\ (Done("linear_unit_times") /\ res.ok) => CompoundRecovers

\* C10 as amended: the same, the recovery of x*y for units A and B whose
\* conversion factors are not zero.
C10_CompoundUnitNonZeroFactor ==
    /\ CompoundUnit
    /\ (Done("linear_unit_times") /\ res.ok
           /\ conversion_factor(call.left) # Zero
           /\ conversion_factor(call.right) # Zero) => CompoundRecovers

\* A velocity unit of factor 2 was multiplied by a time unit of factor 1/2,
\* giving a length unit of factor 1.
C10_Witness ==
    /\ Done("linear_unit_times")
    /\ call.left.dimension = velocity_dimension
    /\ call.right.dimension = time_dimension
    /\ conversion_factor(call.left) = Fin(2, 1)
    /\ conversion_factor(call.right) = Fin(1, 2)
    /\ res.ok
    /\ res.val.dimension = length_dimension
    /\ conversion_factor(res.val) = Fin(1, 1)

(***************************************************************************)
(* The properties of the arithmetic between quantities.                    *)
(***************************************************************************)
\* c is the product of the finite values a and b.
IsProduct(c, a, b) ==
    /\ c.cls = "fin"
    /\ c.n * a.d * b.d = a.n * b.n * c.d

\* c is the quotient of the finite values a and b in the value type vt: the
\* exact quotient in "double" (up to rounding) and the quotient truncated
\* toward zero in "int"; a double divided by zero is an infinity of a's
\* sign, or NaN for 0/0, and an int divided by zero is not defined.
IsQuotient(vt, c, a, b) ==
    IF b.n # 0
    THEN /\ c.cls = "fin"
         /\ IF vt = "double"
            THEN c.n * b.n * a.d = a.n * b.d * c.d
            ELSE LET r == a.n - b.n * c.n
                 IN  /\ c.d = 1
                     /\ Abs(r) < Abs(b.n)
                     /\ r = 0 \/ Sign(r) = Sign(a.n)
    ELSE vt = "double" =>
            /\ a.n = 0 => c.cls = "nan"
            /\ a.n # 0 => c.cls = "inf" /\ c.n = Sign(a.n)

\* D is the dimension over A's basis whose exponents are A's plus k times B's.
ExponentsCombine(D, A, B, k) ==
    /\ Len(D) = Len(A)
    /\ \A i \in 1..Len(A) :
          /\ D[i].base = A[i].base
          /\ D[i].exp = A[i].exp + k * B[i].exp

\* C11: for quantities p of dimension D and q of dimension D' over one basis,
\* p*q is a quantity of dimension product(D, D') whose standard value is the
\* product of the two standard values, p/q is a quantity of dimension
\* quotient(D, D') whose standard value is their quotient, and a raw number
\* r divided by p is a quantity of dimension inverse(D) whose standard value
\* is r divided by p's.
C11_QuantityProductAndQuotient ==
    /\ (Done("quantity_times")
          /\ SameOrderedBasis(call.left.dimension, call.right.dimension)) =>
          /\ res.ok
          /\ res.val.class = "quantity"
          /\ ExponentsCombine(res.val.dimension, call.left.dimension,
                              call.right.dimension, 1)
          /\ IsProduct(get_standard(res.val), get_standard(call.left),
                       get_standard(call.right))
    /\ (Done("quantity_divide")
          /\ SameOrderedBasis(call.left.dimension, call.right.dimension)) =>
          /\ res.ok
          /\ res.val.class = "quantity"
          /\ ExponentsCombine(res.val.dimension, call.left.dimension,
                              call.right.dimension, -1)
          /\ IsQuotient(res.val.value_type, get_standard(res.val),
                        get_standard(call.left), get_standard(call.right))
    /\ Done("value_divide_quantity") =>
          /\ res.ok
          /\ res.val.class = "quantity"
          /\ ExponentsCombine(res.val.dimension,
                              ScalarOver(call.quantity.dimension),
                              call.quantity.dimension, -1)
          /\ IsQuotient(res.val.value_type, get_standard(res.val),
                        call.value, get_standard(call.quantity))

\* A length of 2 was divided by a time of 1/2, giving a velocity of 4.
C11_Witness ==
    /\ Done("quantity_divide")
    /\ call.left = quantity(length_dimension, "double", Fin(2, 1))
    /\ call.right = quantity(time_dimension, "double", Fin(1, 2))
    /\ res.ok
    /\ res.val = quantity(velocity_dimension, "double", Fin(4, 1))

(***************************************************************************)
(* The properties of absolutes.                                            *)
(***************************************************************************)
\* c is the sum of the finite value a and k times the finite value b.
IsSum(c, a, b, k) ==
    /\ c.cls = "fin"
    /\ c.n * a.d * b.d = (a.n * b.d + k * b.n * a.d) * c.d

\* C12: for any two absolutes a1 and a2 of one dimension D, a1 - a2 is a
\* quantity of dimension D whose standard value is a1's minus a2's, and
\* a2 + (a1 - a2) is an absolute of dimension D that compares equal to a1.
C12_AbsoluteDifferenceAndSum ==
    (Done("absolute_minus_absolute") /\ SameInstance(call.left, call.right)) =>
        /\ res.ok
        /\ res.val.class = "quantity"
        /\ res.val.dimension = call.left.dimension
        /\ IsSum(get_standard(res.val), get_standard(call.left),
                 get_standard(call.right), -1)
        /\ LET s == absolute_plus_quantity(call.right, res.val)
           IN  /\ s.ok
               /\ s.val.class = "absolute"
               /\ s.val.dimension = call.left.dimension
               /\ absolute_equal(s.val, call.left) = Value(TRUE)

\* x is an absolute of a's dimension and value type whose standard value is
\* the sum of the standard values of a and q.
IsAbsoluteSum(x, a, q) ==
    /\ x.class = "absolute"
    /\ x.dimension = a.dimension
    /\ x.value_type = a.value_type
    /\ IsSum(get_standard(x), get_standard(a), get_standard(q), 1)

\* C13: for every dimension D, scalar or not, an absolute of D and a
\* quantity of D add in both operand orders; each order yields an absolute
\* of D whose standard value is the sum of the operands' standard values,
\* so the two orders give equal results.
C13_AbsolutePlusQuantityBothOrders ==
    /\ (Done("absolute_plus_quantity") /\ SameInstance(call.left, call.right)) =>
          /\ res.ok
          /\ IsAbsoluteSum(res.val, call.left, call.right)
          /\ quantity_plus_absolute(call.right, call.left) = res
    /\ (Done("quantity_plus_absolute") /\ SameInstance(call.left, call.right)) =>
          /\ res.ok
          /\ IsAbsoluteSum(res.val, call.right, call.left)
          /\ absolute_plus_quantity(call.right, call.left) = res

\* C14: for an absolute a of dimension D and a linear_unit U of dimension D,
\* a.get(U) is accepted and returns U.from_standard_value of a's standard
\* value, as quantity::get does for a quantity of that standard value; a
\* unit of another dimension is rejected by quantity::get and absolute::get.
C14_AbsoluteGet ==
    /\ Done("absolute_get") =>
          IF SameInstance(call.absolute, call.unit)
          THEN /\ res.ok
               /\ IsQuotient(call.unit.value_type, res.val,
                             get_standard(call.absolute),
                             conversion_factor(call.unit))
               /\ res = quantity_get(quantity(call.absolute.dimension,
                                              call.absolute.value_type,
                                              get_standard(call.absolute)),
                                     call.unit, call.ub)
          ELSE ~res.ok
    /\ (Done("quantity_get") /\ call.quantity.dimension # call.unit.dimension)
          => ~res.ok

(***************************************************************************)
(* The properties of the in-place operators.                               *)
(***************************************************************************)
\* The magnitude of the value of an expression: the standard value of a
\* quantity, or the raw number itself.
Magnitude(e) == IF e.class = "arithmetic" THEN e.value ELSE e.mStandardValue

\* q is still of the type it was declared with.
KeepsDeclaredType == type_of(call.self) = call.declared

\* An in-place *= or /= with a quantity that is not scalar does not compile.
NonScalarOperandRejected ==
    (/\ call.op \in {"*=", "/="}
     /\ call.other.class = "quantity"
     /\ ~AllExponentsZero(call.other.dimension)) => ~call.accepted

\* C15 as claimed: after any sequence of in-place operations (+= and -=
\* with a quantity of q's dimension, *= and /= with a raw number or a scalar
\* quantity) q is still of dimension D and its standard value is the
\* magnitude the non-mutating operators +, -, *, / give in the same order on
\* the same operands; *= and /= with a quantity that is not scalar are
\* rejected.
C15_InPlaceMirrorsAnyOperand ==
    /\ KeepsDeclaredType
    /\ NonScalarOperandRejected
    /\ call.accepted =>
          /\ res.ok
          /\ Magnitude(res.val) = call.self.mStandardValue

\* The right operand has q's value type and, when it is a quantity, q's
\* basis.
OwnType(other, q) ==
    /\ other.value_type = q.value_type
    /\ other.class = "quantity" => SameOrderedBasis(other.dimension, q.dimension)

\* C15 as amended: the same for operands of q's own value type (a type the
\* usual arithmetic conversions leave as it is) and, for a quantity operand,
\* of q's basis: each such statement takes q and an expression equal to it
\* to a q and an expression that are equal again.
C15_InPlaceMirrorsOwnType ==
    /\ []KeepsDeclaredType
    /\ []NonScalarOperandRejected
    /\ [][(/\ res = Value(call.self)
           /\ call'.accepted
           /\ OwnType(call'.other, call'.self)) => res' = Value(call'.self)]_vars

\* A length of 2 was increased by a length of 1/2 and then scaled by 1/2.
C15_Witness ==
    /\ pc = 2
    /\ call.op = "*="
    /\ call.accepted
    /\ call.other = type_of(arithmetic("double", Zero))
    /\ call.self = quantity(length_dimension, "double", Fin(5, 4))
    /\ res = Value(call.self)

(***************************************************************************)
(* The frame of the operations.                                            *)
(***************************************************************************)
\* The operations that are not const: the in-place operators, assignment
\* and set_standard_value.
MutatorOps ==
    {"quantity_plus_assign", "quantity_minus_assign", "quantity_times_assign",
     "quantity_divide_assign", "quantity_assign_value", "set_standard_value"}

NonZeroFactor(u) ==
    conversion_factor(u).cls = "fin" /\ conversion_factor(u) # Zero

\* The units derived from an identity unit by scaled_up(k), scaled_down(k),
\* unit*unit and unit/unit with k # 0 all have a non-zero factor exactly when
\* the identity unit has one and each of the four operations, applied to
\* units of non-zero factor (every such unit is derived: a factor n/d is
\* identity.scaled_up(n).scaled_down(d)), gives a unit of non-zero factor.
DerivationKeepsNonZero(exact) ==
    /\ Done("linear_unit_default") => NonZeroFactor(res.val)
    /\ (Done("scaled_up") /\ NonZeroFactor(call.unit) /\ call.value # Zero)
          => NonZeroFactor(res.val)
    /\ (/\ Done("scaled_down") /\ NonZeroFactor(call.unit) /\ call.value # Zero
        /\ exact => ExactQuotient(call.unit.value_type,
                                  conversion_factor(call.unit), call.value))
          => NonZeroFactor(res.val)
    /\ (/\ Done("linear_unit_times") /\ res.ok
        /\ NonZeroFactor(call.left) /\ NonZeroFactor(call.right))
          => NonZeroFactor(res.val)
    /\ (/\ Done("linear_unit_divide") /\ res.ok
        /\ NonZeroFactor(call.left) /\ NonZeroFactor(call.right)
        /\ exact => ExactQuotient(call.left.value_type,
                                  conversion_factor(call.left),
                                  conversion_factor(call.right)))
          => NonZeroFactor(res.val)

\* C17 as claimed: every unit derived from an identity unit by scaled_up(k),
\* scaled_down(k), unit*unit and unit/unit with non-zero k has a non-zero
\* conversion factor, in every value type, int included.
C17_AnyDerivedFactorNonZero == DerivationKeepsNonZero(FALSE)

\* C17 as amended: the same when, in an integer value type, every division
\* of factors is exact.
C17_DerivedFactorNonZeroWhenExact == DerivationKeepsNonZero(TRUE)

\* An int unit of factor 2 was scaled down by 2 to a unit of factor 1.
C17_Witness ==
    /\ Done("scaled_down")
    /\ call.unit.value_type = "int"
    /\ conversion_factor(call.unit) = Fin(2, 1)
    /\ call.value = Fin(2, 1)
    /\ conversion_factor(res.val) = Fin(1, 1)

====
